---------------------------- MODULE Spec2Model ----------------------------
(***************************************************************************)
(* A model of the MindMate voice assistant: the command-line assistant of  *)
(* src/main.py (sanitize_text, validate_input, process_text, speak_text,   *)
(* listen_to_speech, main) and the WebSocket server of src/backend/app.py  *)
(* (ConnectionManager, text_to_speech, websocket_endpoint).                *)
(*                                                                         *)
(* A Python value is a record [t, v]: t is its type ("str", "none", "int") *)
(* and v the sequence of its characters (for an int, its digits).  A       *)
(* character is a one-character TLA+ string; "BEL" stands for the control  *)
(* character \x07, which is neither printable nor white space.             *)
(***************************************************************************)
EXTENDS Integers, Sequences, FiniteSets, TLC

\* ------------------------------------------------------------------ bounds
\* Longest text drawn as an input of sanitize_text.
MaxTextLen == 4
\* Largest max_length drawn as an input of sanitize_text.
MaxSanLen == 3
\* Largest max_retries drawn as an input of process_text.
MaxRetries == 4
\* Largest initial_delay drawn as an input of process_text.
MaxInitialDelay == 11
\* Iterations of main's loop that are followed.
MaxTurns == 7
\* WebSocket channels that connect to the server.
NumChans == 2
\* Messages the clients send, over all channels.
MaxMsgs == 2
\* HTTP requests made to POST /api/chat.
NumRequests == 3
\* Largest max_attempts drawn as an input of listen_to_speech.
MaxAttempts == 4

\* ------------------------------------------------------- Python primitives
Str(s) == [t |-> "str", v |-> s]
PyNone == [t |-> "none", v |-> <<>>]
PyInt(d) == [t |-> "int", v |-> <<d>>]

\* isinstance(x, str)
IsStr(x) == x.t = "str"

\* Python truthiness: "", PyNone and 0 are falsy.
Truthy(x) ==
    CASE x.t = "str" -> x.v # <<>>
      [] x.t = "none" -> FALSE
      [] OTHER -> x.v # <<"0">>

\* str.isspace() of one character.
IsSpace(c) == c \in {" ", "\n", "\t"}

\* str.isprintable() of one character: the space is printable, the other
\* white space and the control characters are not.
IsPrintable(c) == c \notin {"\n", "\t", "BEL"}

Min(a, b) == IF a <= b THEN a ELSE b
Max(a, b) == IF a >= b THEN a ELSE b

\* Smallest and largest element of a non-empty set of integers.
SetMin(S) == CHOOSE x \in S : \A y \in S : x <= y
SetMax(S) == CHOOSE x \in S : \A y \in S : x >= y

\* s.strip(): s without its leading and trailing white space.
Strip(s) ==
    LET keep == {i \in 1..Len(s) : ~IsSpace(s[i])}
    IN  IF keep = {} THEN <<>> ELSE SubSeq(s, SetMin(keep), SetMax(keep))

\* s[:k], a negative k counting from the end.
SliceTo(s, k) ==
    IF k >= 0 THEN SubSeq(s, 1, Min(k, Len(s)))
    ELSE SubSeq(s, 1, Max(Len(s) + k, 0))

\* s.rsplit(' ', 1)[0]: s up to its last space, s itself when it has none.
RSplitHead(s) ==
    LET sp == {i \in 1..Len(s) : s[i] = " "}
    IN  IF sp = {} THEN s ELSE SubSeq(s, 1, SetMax(sp) - 1)

\* "".join(c for c in s if c.isprintable() or c.isspace())
RECURSIVE KeepPrintable(_)
KeepPrintable(s) ==
    IF s = <<>> THEN <<>>
    ELSE IF IsPrintable(Head(s)) \/ IsSpace(Head(s))
         THEN <<Head(s)>> \o KeepPrintable(Tail(s))
         ELSE KeepPrintable(Tail(s))

Ellipsis == <<".", ".", ".">>

\* ----------------------------------------------------------- sanitize_text
\* sanitized[:max_length].rsplit(' ', 1)[0] + "..."
Truncate(s, max_length) == RSplitHead(SliceTo(s, max_length)) \o Ellipsis

sanitize_text(text, max_length) ==
    IF ~Truthy(text) \/ ~IsStr(text) THEN Str(<<>>)
    ELSE LET sanitized == Strip(KeepPrintable(text.v))
         IN  IF Len(sanitized) > max_length
             THEN Str(Truncate(sanitized, max_length))
             ELSE Str(sanitized)

\* ---------------------------------------------------------- return values
\* A string the program returns or speaks is a record [k, s, n, v]: a fixed
\* message (k = "msg", s its text; printable and shorter than any limit), the
\* too-long message (k = "too_long", n the limit formatted into it) or a
\* text (k = "text", v its characters).
Msg(s) == [k |-> "msg", s |-> s, n |-> 0, v |-> <<>>]
Text(v) == [k |-> "text", s |-> "", n |-> 0, v |-> v]
TooLongMsg(max_length) ==
    [k |-> "too_long",
     s |-> "Your message is too long. Please keep it under {max_length} characters.",
     n |-> max_length, v |-> <<>>]
NoValue == [k |-> "none", s |-> "", n |-> 0, v |-> <<>>]

MSG_REPEAT == Msg("I didn't catch that. Could you please repeat?")
MSG_TOO_MANY == Msg("I'm getting too many requests. Please try again later.")
MSG_CONNECTING == Msg("I'm having trouble connecting to the service. Please try again later.")
MSG_ERROR == Msg("I'm sorry, I encountered an error processing your request. Please try again later.")
MSG_TROUBLE == Msg("I'm having trouble processing your request. Please try again later.")

\* ---------------------------------------------------------- validate_input
\* The default max_length of validate_input.
MAX_INPUT_LENGTH == 1000

\* validate_input without the test of the stripped text for emptiness.
validate_input_NoStripTest(text, max_length) ==
    IF ~Truthy(text) \/ ~IsStr(text) THEN [ok |-> FALSE, result |-> MSG_REPEAT]
    ELSE LET stripped == Strip(text.v)
         IN  IF Len(stripped) > max_length
             THEN [ok |-> FALSE, result |-> TooLongMsg(max_length)]
             ELSE [ok |-> TRUE, result |-> Text(stripped)]

\* validate_input measuring the length with an off-by-one limit.
validate_input_OffByOne(text, max_length) ==
    IF ~Truthy(text) \/ ~IsStr(text) THEN [ok |-> FALSE, result |-> MSG_REPEAT]
    ELSE LET stripped == Strip(text.v)
         IN  IF stripped = <<>> THEN [ok |-> FALSE, result |-> MSG_REPEAT]
             ELSE IF Len(stripped) > max_length + 1
                  THEN [ok |-> FALSE, result |-> TooLongMsg(max_length)]
                  ELSE [ok |-> TRUE, result |-> Text(stripped)]

\* validate_input(text, max_length): (is_valid, result)
validate_input(text, max_length) ==
    IF ~Truthy(text) \/ ~IsStr(text) THEN [ok |-> FALSE, result |-> MSG_REPEAT]
    ELSE LET stripped == Strip(text.v)
         IN  IF stripped = <<>> THEN [ok |-> FALSE, result |-> MSG_REPEAT]
             ELSE IF Len(stripped) > max_length
                  THEN [ok |-> FALSE, result |-> TooLongMsg(max_length)]
                  ELSE [ok |-> TRUE, result |-> Text(stripped)]

\* ------------------------------------------------- process_text: its tests
\* The defaults of process_text and the cap of its backoff.
DEFAULT_MAX_RETRIES == 3
DEFAULT_INITIAL_DELAY == 1
MAX_DELAY == 10

\* The loop test letting one call more through.
RetryLoopTest_OneMore(rc, mr, flag) == rc <= mr /\ ~flag

\* The loop test not looking at the flag.
RetryLoopTest_FlagIgnored(rc, mr, flag) == rc < mr

\* while retry_count < max_retries and not shutdown_flag
RetryLoopTest(rc, mr, flag) == rc < mr /\ ~flag

\* The exhaustion test one retry late.
RetriesExhausted_Late(rc, mr) == rc > mr

\* if retry_count >= max_retries
RetriesExhausted(rc, mr) == rc >= mr

\* delay = min(delay * 2, 10)
NextDelay(d) == Min(d * 2, MAX_DELAY)

\* ------------------------------------------------------------------ state
VARIABLES
    san,            \* the sanitizer harness: [pc, text, max_length, once, twice]
    spk,            \* speak_text called directly: [pc, text, outcome, result]
    shutdown_flag,  \* main.py's global shutdown_flag
    pt_pc,          \* process_text: where the call is
    pt_text,        \* process_text: its local text (the argument, then the stripped text)
    max_retries,    \* process_text: its argument max_retries
    initial_delay,  \* process_text: its argument initial_delay
    retry_count,    \* process_text: its local retry_count
    delay,          \* process_text: its local delay
    pt_ret,         \* process_text: the value returned
    pt_outcomes,    \* process_text: the outcomes of the chat-completion calls made, in order
    pt_sleeps,      \* process_text: the delays slept, in order
    ls_pc,          \* listen_to_speech: where the call is
    max_attempts,   \* listen_to_speech: its argument max_attempts
    attempts,       \* listen_to_speech: its local attempts
    timeout,        \* listen_to_speech: its local timeout, in sixteenths of a second
    ls_ret,         \* listen_to_speech: the value returned
    ls_log,         \* listen_to_speech: [on, count, first, prev, last], the passes of its loop when recorded
    sp_last,        \* speak_text: what its last call did
    main_pc,        \* main: where the program is
    conversation_active,  \* main: its local conversation_active
    consecutive_errors,   \* main: its local consecutive_errors
    user_input,     \* main: its local user_input
    turns,          \* main: the iterations of the loop started
    turn_spoken,    \* main: the texts given to speak_text since the iteration started
    turn_generated, \* main: the calls of process_text since the iteration started
    signal_at,      \* where main was when the first signal arrived ("none": no signal yet)
    active_connections,  \* app.py: manager.active_connections, a list of channels
    ws_pc,          \* websocket_endpoint, per channel: where the handler is
    ws_msg,         \* websocket_endpoint, per channel: the last message received (data)
    ws_recv,        \* per channel: the messages the handler has received so far
    ws_sent,        \* per channel: the messages sent since the last one was received, in order
    ws_end,         \* per channel: how the handler ended ("none": it has not)
    ws_exc,         \* per channel: whether the processing of the last message raised an exception
    ws_files,       \* per channel: the temporary files made for the last message that exist
    ws_calls,       \* per channel: the external calls made for the last message, in order
    tts_call,       \* the call of text_to_speech that is running: [chan, text]
    chat            \* POST /api/chat, per request: [pc, text, generation, status, body]

lsVars == <<ls_pc, max_attempts, attempts, timeout, ls_ret, ls_log>>
mainVars == <<main_pc, conversation_active, consecutive_errors, user_input,
              turns, turn_spoken, turn_generated>>
ptVars == <<pt_pc, pt_text, max_retries, initial_delay, retry_count, delay,
            pt_ret, pt_outcomes, pt_sleeps>>
sigVars == <<shutdown_flag, signal_at>>
cliVars == <<sigVars, ptVars, lsVars, sp_last, mainVars>>
wsVars == <<active_connections, ws_pc, ws_msg, ws_recv, ws_sent, ws_end, ws_exc,
            ws_files, ws_calls, tts_call>>
srvVars == <<wsVars, chat>>
vars == <<san, spk, cliVars, srvVars>>

\* ------------------------------------------------------ sanitizer harness
\* The characters texts are drawn from.
Chars == {"a", " ", ".", "\n", "BEL"}

RECURSIVE SeqsUpTo(_, _)
SeqsUpTo(S, n) ==
    IF n = 0 THEN {<<>>}
    ELSE LET shorter == SeqsUpTo(S, n - 1)
         IN  shorter \cup {Append(s, c) : s \in {x \in shorter : Len(x) = n - 1}, c \in S}

SanTexts == {Str(s) : s \in SeqsUpTo(Chars, MaxTextLen)} \cup {PyNone, PyInt("0"), PyInt("5")}

SanIdle == [pc |-> "off", text |-> PyNone, max_length |-> 0,
            once |-> PyNone, twice |-> PyNone]

\* speak_text has not been called.
SpNone == [text |-> NoValue, events |-> <<>>, success |-> FALSE, file_left |-> FALSE]

\* speak_text is not being called directly.
SpkIdle ==
    [pc |-> "off", text |-> NoValue,
     outcome |-> [synth |-> "none", primary |-> "none", fallback |-> "none", unlink |-> "none"],
     result |-> SpNone]

\* listen_to_speech is not running.
LsIdle ==
    /\ ls_pc = "off"
    /\ max_attempts = 0
    /\ attempts = 0
    /\ timeout = 0
    /\ ls_ret = PyNone
    /\ ls_log = [on |-> FALSE, count |-> 0, first |-> 0,
                 prev |-> [timeout |-> 0, feedback |-> FALSE, k |-> "none", text |-> <<>>],
                 last |-> [timeout |-> 0, feedback |-> FALSE, k |-> "none", text |-> <<>>]]

\* main is not running.
MainIdle ==
    /\ main_pc = "off"
    /\ conversation_active = FALSE
    /\ consecutive_errors = 0
    /\ user_input = PyNone
    /\ turns = 0
    /\ turn_spoken = <<>>
    /\ turn_generated = 0
    /\ sp_last = SpNone

Chans == 1..NumChans

Requests == 1..NumRequests

\* A request that has not been made.
NoRequest == [pc |-> "idle", text |-> "", generation |-> "none", status |-> 0, body |-> ""]

\* No message: what ws_msg holds before the first message.
NoMsg == [shape |-> "none", type |-> "", text |-> "", audio |-> ""]

\* The server has no connection.
SrvIdle ==
    /\ active_connections = <<>>
    /\ ws_pc = [c \in Chans |-> "idle"]
    /\ ws_msg = [c \in Chans |-> NoMsg]
    /\ ws_recv = [c \in Chans |-> 0]
    /\ ws_sent = [c \in Chans |-> <<>>]
    /\ ws_end = [c \in Chans |-> "none"]
    /\ ws_exc = [c \in Chans |-> FALSE]
    /\ ws_files = [c \in Chans |-> {}]
    /\ ws_calls = [c \in Chans |-> <<>>]
    /\ tts_call = [chan |-> 0, text |-> ""]
    /\ chat = [r \in Requests |-> NoRequest]

\* No signal has arrived.
SigIdle == shutdown_flag = FALSE /\ signal_at = "none"

\* process_text is not running.
PtIdle ==
    /\ pt_pc = "off"
    /\ pt_text = PyNone
    /\ max_retries = 0
    /\ initial_delay = 0
    /\ retry_count = 0
    /\ delay = 0
    /\ pt_ret = NoValue
    /\ pt_outcomes = <<>>
    /\ pt_sleeps = <<>>

SanInit ==
    /\ san \in {[pc |-> "start", text |-> t, max_length |-> m, once |-> PyNone, twice |-> PyNone] :
                t \in SanTexts, m \in 0..MaxSanLen}
    /\ spk = SpkIdle
    /\ SigIdle
    /\ PtIdle
    /\ LsIdle
    /\ MainIdle
    /\ SrvIdle

\* once = sanitize_text(text, max_length)
SanOnce ==
    /\ san.pc = "start"
    /\ san' = [san EXCEPT !.pc = "once",
                          !.once = sanitize_text(san.text, san.max_length)]
    /\ UNCHANGED <<spk, cliVars, srvVars>>

\* twice = sanitize_text(once, max_length)
SanTwice ==
    /\ san.pc = "once"
    /\ san' = [san EXCEPT !.pc = "twice",
                          !.twice = sanitize_text(san.once, san.max_length)]
    /\ UNCHANGED <<spk, cliVars, srvVars>>

SanNext == SanOnce \/ SanTwice

SpecSanitize == SanInit /\ [][SanNext]_vars

\* -------------------------------------------------------------- speak_text
\* The default max_length of sanitize_text, which speak_text relies on.
TTS_MAX_LENGTH == 500

\* sanitize_text(text) of a text to speak; a fixed message is printable,
\* stripped and shorter than the limit, so it is its own sanitized text.
Sanitized(text) ==
    IF text.k = "text" THEN Text(sanitize_text(Str(text.v), TTS_MAX_LENGTH).v) ELSE text

\* What the environment does in one call of speak_text.  synth: gTTS, tts.save
\* and sf.read succeed ("ok"), raise before the file is written ("raises"), or
\* raise or leave an empty file once it is written ("raises_file_written");
\* primary: sd.play/sd.wait; fallback: the system player; unlink: os.unlink.
SpeakOutcomes ==
    [synth : {"ok", "raises", "raises_file_written"},
     primary : {"ok", "raises"}, fallback : {"ok", "raises"}, unlink : {"ok", "raises"}]

\* speak_text returning True once the text was printed as a last resort.
speak_text_PrintCounts(text, o) ==
    LET sanitized_text == Sanitized(text)
    IN  IF sanitized_text.k = "text" /\ sanitized_text.v = <<>>
        THEN [text |-> sanitized_text, events |-> <<>>, success |-> FALSE,
              file_left |-> FALSE]
        ELSE IF o.synth # "ok"
        THEN [text |-> sanitized_text, events |-> <<"synth", "print">>,
              success |-> FALSE,
              file_left |-> o.synth = "raises_file_written" /\ o.unlink = "raises"]
        ELSE IF o.primary = "ok"
        THEN [text |-> sanitized_text, events |-> <<"synth", "primary">>,
              success |-> TRUE, file_left |-> o.unlink = "raises"]
        ELSE IF o.fallback = "ok"
        THEN [text |-> sanitized_text, events |-> <<"synth", "primary", "fallback">>,
              success |-> TRUE, file_left |-> o.unlink = "raises"]
        ELSE [text |-> sanitized_text,
              events |-> <<"synth", "primary", "fallback", "print">>,
              success |-> TRUE, file_left |-> o.unlink = "raises"]

\* speak_text(text) under outcome o: the sanitized text, the steps taken in
\* order, the value returned, and whether the temporary file is still there
\* when it returns (the finally clause unlinks it if it exists).
speak_text(text, o) ==
    LET sanitized_text == Sanitized(text)
    IN  IF sanitized_text.k = "text" /\ sanitized_text.v = <<>>
        THEN [text |-> sanitized_text, events |-> <<>>, success |-> FALSE,
              file_left |-> FALSE]
        ELSE IF o.synth # "ok"
        THEN [text |-> sanitized_text, events |-> <<"synth", "print">>,
              success |-> FALSE,
              file_left |-> o.synth = "raises_file_written" /\ o.unlink = "raises"]
        ELSE IF o.primary = "ok"
        THEN [text |-> sanitized_text, events |-> <<"synth", "primary">>,
              success |-> TRUE, file_left |-> o.unlink = "raises"]
        ELSE IF o.fallback = "ok"
        THEN [text |-> sanitized_text, events |-> <<"synth", "primary", "fallback">>,
              success |-> TRUE, file_left |-> o.unlink = "raises"]
        ELSE [text |-> sanitized_text,
              events |-> <<"synth", "primary", "fallback", "print">>,
              success |-> FALSE, file_left |-> o.unlink = "raises"]

\* -------------------------------------------- speak_text, called directly
\* The texts speak_text is called with: a fixed message, an empty text, a
\* text of a control character only, a short text, a padded text.
SpeakTexts ==
    {Msg("Hello! I'm your MindMate assistant. How can I help you today?"),
     Text(<<>>), Text(<<"BEL">>), Text(<<"o", "k">>), Text(<<" ", "o", "k", "\n">>)}

\* speak_text called with any text, the environment doing any of what it can.
SpkInit ==
    /\ san = SanIdle
    /\ SigIdle
    /\ PtIdle
    /\ LsIdle
    /\ MainIdle
    /\ SrvIdle
    /\ spk \in {[pc |-> "start", text |-> t, outcome |-> o, result |-> SpNone] :
                t \in SpeakTexts, o \in SpeakOutcomes}

\* result = speak_text(text)
SpkCall ==
    /\ spk.pc = "start"
    /\ spk' = [spk EXCEPT !.pc = "done", !.result = speak_text(spk.text, spk.outcome)]
    /\ UNCHANGED <<san, cliVars, srvVars>>

SpkNext == SpkCall

SpecSpeak == SpkInit /\ [][SpkNext]_vars

\* What a call of speak_text(text) can leave in sp_last.
Spoken(text) == {speak_text(text, o) : o \in SpeakOutcomes}

\* The texts main and listen_to_speech speak.
SAY_GREETING == Msg("Hello! I'm your MindMate assistant. How can I help you today?")
SAY_TRY_AGAIN == Msg("I didn't catch that. Please try again.")
SAY_FAREWELL == Msg("Goodbye! Have a great day!")
SAY_NO_RESPONSE == Msg("I'm sorry, I couldn't generate a response. Please try again.")
SAY_CHECK_MICROPHONE == Msg("I'm having trouble understanding you. Please check your microphone and try again.")
SAY_ERROR == Msg("I encountered an error. Let's try that again.")
SAY_RESTART == Msg("I'm having too many issues. Please restart me.")

\* --------------------------------------------------------- signal_handler
\* SIGINT or SIGTERM arrives: the handler sets the flag and returns.
signal_handler ==
    /\ ~shutdown_flag
    /\ shutdown_flag' = TRUE
    /\ signal_at' = main_pc
    /\ UNCHANGED <<san, spk, srvVars, ptVars, lsVars, sp_last, mainVars>>

\* What a step of process_text leaves alone.
ptRest == <<san, spk, srvVars, sigVars, lsVars, sp_last, mainVars>>

\* ------------------------------------------------------------ process_text
\* A text of n letters.
Letters(n) == [i \in 1..n |-> "a"]

\* The texts process_text is called with: not strings, empty, white space
\* only, short, and texts around the length limit, padded and not.
PtShortTexts ==
    {PyNone, PyInt("0"), PyInt("5"),
     Str(<<>>), Str(<<" ">>), Str(<<"\n", " ", "\t">>),
     Str(<<"h", "i">>), Str(<<" ", "h", "i", "\n">>)}
PtLongTexts ==
    {Str(Letters(MAX_INPUT_LENGTH)),
     Str(<<" ">> \o Letters(MAX_INPUT_LENGTH) \o <<" ">>),
     Str(Letters(MAX_INPUT_LENGTH + 1)),
     Str(<<" ">> \o Letters(MAX_INPUT_LENGTH + 1))}

\* What response.choices[0].message['content'] is when the call succeeds.
Contents == {<<>>, <<"o", "k">>, <<" ", "o", "k", "\n">>, <<"BEL">>}

\* What one chat-completion call does: it returns a response with a message,
\* returns a response with no choices, or raises RateLimitError, APIError or
\* another exception.
Outcome(k, content) == [k |-> k, content |-> content]

\* is_valid, result = validate_input(text); if not is_valid: return result
process_text_validate ==
    /\ pt_pc = "start"
    /\ LET r == validate_input(pt_text, MAX_INPUT_LENGTH)
       IN  IF ~r.ok
           THEN /\ pt_ret' = r.result
                /\ pt_pc' = "done"
                /\ UNCHANGED <<pt_text, retry_count, delay>>
           ELSE /\ pt_text' = Str(r.result.v)
                /\ retry_count' = 0
                /\ delay' = initial_delay
                /\ pt_pc' = "loop"
                /\ UNCHANGED pt_ret
    /\ UNCHANGED <<max_retries, initial_delay, pt_outcomes, pt_sleeps>>
    /\ UNCHANGED ptRest

\* The test of the while loop; past the loop the last return is taken.
process_text_loop ==
    /\ pt_pc = "loop"
    /\ IF RetryLoopTest(retry_count, max_retries, shutdown_flag)
       THEN pt_pc' = "call" /\ UNCHANGED pt_ret
       ELSE pt_pc' = "done" /\ pt_ret' = MSG_TROUBLE
    /\ UNCHANGED <<pt_text, max_retries, initial_delay, retry_count, delay,
                   pt_outcomes, pt_sleeps>>
    /\ UNCHANGED ptRest

\* The call returns a response with a message: its stripped content is returned.
process_text_success ==
    /\ pt_pc = "call"
    /\ \E c \in Contents :
         /\ pt_outcomes' = Append(pt_outcomes, Outcome("ok", c))
         /\ pt_ret' = Text(Strip(c))
    /\ pt_pc' = "done"
    /\ UNCHANGED <<pt_text, max_retries, initial_delay, retry_count, delay, pt_sleeps>>
    /\ UNCHANGED ptRest

\* The call raises RateLimitError.
process_text_rate_limit ==
    /\ pt_pc = "call"
    /\ pt_outcomes' = Append(pt_outcomes, Outcome("rate_limit", <<>>))
    /\ retry_count' = retry_count + 1
    /\ IF RetriesExhausted(retry_count + 1, max_retries)
       THEN pt_pc' = "done" /\ pt_ret' = MSG_TOO_MANY
       ELSE pt_pc' = "sleep" /\ UNCHANGED pt_ret
    /\ UNCHANGED <<pt_text, max_retries, initial_delay, delay, pt_sleeps>>
    /\ UNCHANGED ptRest

\* time.sleep(delay), which raises ValueError for a negative delay (out of
\* the except clause, so out of process_text); then the delay is doubled.
process_text_sleep ==
    /\ pt_pc = "sleep"
    /\ IF delay < 0
       THEN pt_pc' = "raised" /\ UNCHANGED <<delay, pt_sleeps>>
       ELSE /\ pt_sleeps' = Append(pt_sleeps, delay)
            /\ delay' = NextDelay(delay)
            /\ pt_pc' = "loop"
    /\ UNCHANGED <<pt_text, max_retries, initial_delay, retry_count, pt_ret, pt_outcomes>>
    /\ UNCHANGED ptRest

\* The call raises APIError.
process_text_api_error ==
    /\ pt_pc = "call"
    /\ pt_outcomes' = Append(pt_outcomes, Outcome("api_error", <<>>))
    /\ pt_pc' = "done"
    /\ pt_ret' = MSG_CONNECTING
    /\ UNCHANGED <<pt_text, max_retries, initial_delay, retry_count, delay, pt_sleeps>>
    /\ UNCHANGED ptRest

\* The call raises another exception, or returns no choices (ValueError).
process_text_exception ==
    /\ pt_pc = "call"
    /\ \E k \in {"exception", "no_choices"} :
         pt_outcomes' = Append(pt_outcomes, Outcome(k, <<>>))
    /\ retry_count' = retry_count + 1
    /\ IF RetriesExhausted(retry_count + 1, max_retries)
       THEN pt_pc' = "done" /\ pt_ret' = MSG_ERROR
       ELSE pt_pc' = "loop" /\ UNCHANGED pt_ret
    /\ UNCHANGED <<pt_text, max_retries, initial_delay, delay, pt_sleeps>>
    /\ UNCHANGED ptRest

\* -------------------------------------------------------- listen_to_speech
\* The defaults of listen_to_speech and the caps of its timeout, in seconds.
DEFAULT_MAX_ATTEMPTS == 3
DEFAULT_INITIAL_TIMEOUT == 5
NO_AUDIO_TIMEOUT_CAP == 10
RETRY_TIMEOUT_CAP == 15

\* Seconds as sixteenths of a second: the timeouts are floats, multiplied by 1.5.
Ticks(seconds) == 16 * seconds

\* min(timeout * 1.5, cap)
NextTimeout(t, cap) == Min((3 * t) \div 2, Ticks(cap))

\* What recognize_google returns when it returns.
Recognized ==
    {<<"h", "i">>, <<" ", "h", "i", " ">>,
     <<"g", "o", "o", "d", "b", "y", "e">>,
     <<"B", "y", "e">>,
     <<"q", "u", "i", "t", "e">>,
     <<>>, <<" ">>}

\* What one attempt meets: the microphone cannot be opened (no input device,
\* or another OSError), no audio is captured, or the recognizer returns a
\* text, cannot understand the audio, fails to reach its service, or raises.
AttemptOutcomes ==
    {[k |-> k, text |-> <<>>] :
        k \in {"no_device", "mic_error", "no_audio", "unknown_value",
               "request_error", "exception"}}
    \cup {[k |-> "text", text |-> t] : t \in Recognized}

\* One pass of the loop of listen_to_speech: the timeout it had, whether
\* the feedback was spoken in it, and what the attempt met.
Pass(t, feedback, o) == [timeout |-> t, feedback |-> feedback, k |-> o.k, text |-> o.text]

\* No pass: what the log holds in the place of a pass not made.
NoPass == [timeout |-> 0, feedback |-> FALSE, k |-> "none", text |-> <<>>]

\* The log when nothing is recorded, and when a call starts being recorded.
LogOff == [on |-> FALSE, count |-> 0, first |-> 0, prev |-> NoPass, last |-> NoPass]
LogOn == [on |-> TRUE, count |-> 0, first |-> 0, prev |-> NoPass, last |-> NoPass]

\* The log after one more pass, when the passes are recorded: their number,
\* the timeout of the first, the last pass and the one before it.
Recorded(log, pass) ==
    IF log.on
    THEN [on |-> TRUE, count |-> log.count + 1,
          first |-> IF log.count = 0 THEN pass.timeout ELSE log.first,
          prev |-> log.last, last |-> pass]
    ELSE log

\* What a step of listen_to_speech leaves alone.
lsRest == <<san, spk, srvVars, sigVars, ptVars, main_pc, conversation_active, consecutive_errors,
            user_input, turns, turn_generated>>

\* The loop test letting one attempt more through.
ListenLoopTest_OneMore(a, m, flag) == a <= m /\ ~flag

\* while attempts < max_attempts and not shutdown_flag
ListenLoopTest(a, m, flag) == a < m /\ ~flag

\* The test of the while loop; past the loop None is returned.
listen_to_speech_loop ==
    /\ ls_pc = "loop"
    /\ IF ListenLoopTest(attempts, max_attempts, shutdown_flag)
       THEN ls_pc' = "attempt" /\ UNCHANGED ls_ret
       ELSE ls_pc' = "done" /\ ls_ret' = PyNone
    /\ UNCHANGED <<max_attempts, attempts, timeout, ls_log, sp_last, turn_spoken>>
    /\ UNCHANGED lsRest

\* One pass of the loop body.  The feedback is spoken once the microphone is
\* open, on every attempt after the first.
listen_to_speech_attempt ==
    /\ ls_pc = "attempt"
    /\ \E o \in AttemptOutcomes :
         /\ IF o.k \notin {"no_device", "mic_error"} /\ attempts > 0
            THEN /\ sp_last' \in Spoken(SAY_TRY_AGAIN)
                 /\ turn_spoken' = Append(turn_spoken, SAY_TRY_AGAIN)
            ELSE UNCHANGED <<sp_last, turn_spoken>>
         /\ ls_log' = Recorded(ls_log, Pass(timeout, o.k \notin {"no_device", "mic_error"} /\ attempts > 0, o))
         /\ CASE o.k \in {"no_device", "request_error"} ->
                   /\ ls_ret' = PyNone
                   /\ ls_pc' = "done"
                   /\ UNCHANGED <<attempts, timeout>>
              [] o.k = "no_audio" ->
                   /\ attempts' = attempts + 1
                   /\ timeout' = NextTimeout(timeout, NO_AUDIO_TIMEOUT_CAP)
                   /\ ls_pc' = "loop"
                   /\ UNCHANGED ls_ret
              [] o.k = "text" /\ Strip(o.text) # <<>> ->
                   /\ ls_ret' = Str(Strip(o.text))
                   /\ ls_pc' = "done"
                   /\ UNCHANGED <<attempts, timeout>>
              [] OTHER ->
                   /\ attempts' = attempts + 1
                   /\ timeout' = IF attempts + 1 < max_attempts
                                 THEN NextTimeout(timeout, RETRY_TIMEOUT_CAP)
                                 ELSE timeout
                   /\ ls_pc' = "loop"
                   /\ UNCHANGED ls_ret
    /\ UNCHANGED max_attempts
    /\ UNCHANGED lsRest

\* -------------------------------------------------------------------- main
MAX_CONSECUTIVE_ERRORS == 3

\* The warning test passing one error late.
WarningDue_Late(errors) == errors > MAX_CONSECUTIVE_ERRORS

\* if consecutive_errors >= MAX_CONSECUTIVE_ERRORS, in the branch of an
\* empty input
WarningDue(errors) == errors >= MAX_CONSECUTIVE_ERRORS

\* The shutdown test passing one error late.
TooManyErrors_Late(errors) == errors > MAX_CONSECUTIVE_ERRORS * 2 + 1

\* The shutdown test passing one error early.
TooManyErrors_Early(errors) == errors >= MAX_CONSECUTIVE_ERRORS * 2

\* if consecutive_errors > MAX_CONSECUTIVE_ERRORS * 2, in the except clause
TooManyErrors(errors) == errors > MAX_CONSECUTIVE_ERRORS * 2

ExitWords ==
    {<<"e", "x", "i", "t">>, <<"q", "u", "i", "t">>, <<"b", "y", "e">>,
     <<"g", "o", "o", "d", "b", "y", "e">>}

\* str.lower()
LowerChar(c) == IF c = "B" THEN "b" ELSE c
Lower(s) == [i \in 1..Len(s) |-> LowerChar(s[i])]

\* w in s
Contains(s, w) ==
    \E i \in 1..(Len(s) - Len(w) + 1) : SubSeq(s, i, i + Len(w) - 1) = w

\* any(exit_word in user_input.lower() for exit_word in [...])
HasExitWord(text) == \E w \in ExitWords : Contains(Lower(text.v), w)

\* The exit test knowing the word "goodbye" only.
IsExitRequest_GoodbyeOnly(input) ==
    Truthy(input) /\ Contains(Lower(input.v), <<"g", "o", "o", "d", "b", "y", "e">>)

\* user_input and any(...)
IsExitRequest(input) == Truthy(input) /\ HasExitWord(input)

\* process_text and listen_to_speech are left as an exception leaves them.
CallsAbandoned ==
    /\ pt_pc' = "off" /\ pt_text' = PyNone /\ max_retries' = 0 /\ initial_delay' = 0
    /\ retry_count' = 0 /\ delay' = 0 /\ pt_ret' = NoValue
    /\ pt_outcomes' = <<>> /\ pt_sleeps' = <<>>
    /\ ls_pc' = "off" /\ max_attempts' = 0 /\ attempts' = 0 /\ timeout' = 0
    /\ ls_ret' = PyNone /\ UNCHANGED ls_log

\* speak_text(the greeting), once the start-up checks have passed.
main_greet ==
    /\ main_pc = "greet"
    /\ sp_last' \in Spoken(SAY_GREETING)
    /\ turn_spoken' = <<SAY_GREETING>>
    /\ main_pc' = "top"
    /\ UNCHANGED <<san, spk, srvVars, sigVars, ptVars, lsVars, conversation_active,
                   consecutive_errors, user_input, turns, turn_generated>>

\* while conversation_active and not shutdown_flag: the iteration starts with
\* the call of listen_to_speech(); past the loop main returns.
main_loop ==
    /\ main_pc = "top"
    /\ IF conversation_active /\ ~shutdown_flag
       THEN /\ turns < MaxTurns
            /\ turns' = turns + 1
            /\ turn_spoken' = <<>>
            /\ turn_generated' = 0
            /\ main_pc' = "listening"
            /\ ls_pc' = "loop"
            /\ max_attempts' = DEFAULT_MAX_ATTEMPTS
            /\ attempts' = 0
            /\ timeout' = Ticks(DEFAULT_INITIAL_TIMEOUT)
            /\ ls_ret' = PyNone
            /\ UNCHANGED ls_log
       ELSE /\ main_pc' = "done"
            /\ UNCHANGED <<turns, turn_spoken, turn_generated, lsVars>>
    /\ UNCHANGED <<san, spk, srvVars, sigVars, ptVars, sp_last, conversation_active,
                   consecutive_errors, user_input>>

\* listen_to_speech has returned: the flag is tested, then the exit words,
\* then the input is processed, or reported as missing.
main_after_listen ==
    /\ main_pc = "listening"
    /\ ls_pc = "done"
    /\ user_input' = ls_ret
    /\ ls_pc' = "off" /\ max_attempts' = 0 /\ attempts' = 0 /\ timeout' = 0
    /\ ls_ret' = PyNone /\ UNCHANGED ls_log
    /\ IF shutdown_flag
       THEN /\ main_pc' = "done"
            /\ UNCHANGED <<ptVars, sp_last, conversation_active, consecutive_errors,
                           turn_spoken, turn_generated>>
       ELSE IF IsExitRequest(ls_ret)
       THEN /\ sp_last' \in Spoken(SAY_FAREWELL)
            /\ turn_spoken' = Append(turn_spoken, SAY_FAREWELL)
            /\ conversation_active' = FALSE
            /\ main_pc' = "done"
            /\ UNCHANGED <<ptVars, consecutive_errors, turn_generated>>
       ELSE IF Truthy(ls_ret)
       THEN /\ main_pc' = "generating"
            /\ turn_generated' = turn_generated + 1
            /\ pt_pc' = "start"
            /\ pt_text' = ls_ret
            /\ max_retries' = DEFAULT_MAX_RETRIES
            /\ initial_delay' = DEFAULT_INITIAL_DELAY
            /\ retry_count' = 0 /\ delay' = 0 /\ pt_ret' = NoValue
            /\ pt_outcomes' = <<>> /\ pt_sleeps' = <<>>
            /\ UNCHANGED <<sp_last, conversation_active, consecutive_errors, turn_spoken>>
       ELSE /\ main_pc' = "top"
            /\ IF WarningDue(consecutive_errors + 1)
               THEN /\ sp_last' \in Spoken(SAY_CHECK_MICROPHONE)
                    /\ turn_spoken' = turn_spoken \o <<MSG_REPEAT, SAY_CHECK_MICROPHONE>>
                    /\ consecutive_errors' = 0
               ELSE /\ sp_last' \in Spoken(MSG_REPEAT)
                    /\ turn_spoken' = Append(turn_spoken, MSG_REPEAT)
                    /\ consecutive_errors' = consecutive_errors + 1
            /\ UNCHANGED <<ptVars, conversation_active, turn_generated>>
    /\ UNCHANGED <<san, spk, srvVars, sigVars, turns>>

\* if response: a str is true when it is not empty.
HasResponse(response) == response.k # "text" \/ response.v # <<>>

\* process_text has returned: the flag is tested, then the response is spoken.
main_after_generate ==
    /\ main_pc = "generating"
    /\ pt_pc = "done"
    /\ pt_pc' = "off" /\ pt_text' = PyNone /\ max_retries' = 0 /\ initial_delay' = 0
    /\ retry_count' = 0 /\ delay' = 0 /\ pt_ret' = NoValue
    /\ pt_outcomes' = <<>> /\ pt_sleeps' = <<>>
    /\ IF shutdown_flag
       THEN /\ main_pc' = "done"
            /\ UNCHANGED <<sp_last, turn_spoken, consecutive_errors>>
       ELSE /\ main_pc' = "top"
            /\ consecutive_errors' = 0
            /\ LET said == IF HasResponse(pt_ret) THEN pt_ret ELSE SAY_NO_RESPONSE
               IN  /\ sp_last' \in Spoken(said)
                   /\ turn_spoken' = Append(turn_spoken, said)
    /\ UNCHANGED <<san, spk, srvVars, sigVars, lsVars, conversation_active, user_input, turns,
                   turn_generated>>

\* An exception reaches main's try block out of listen_to_speech or
\* process_text (except Exception): the error is spoken and counted.
main_exception ==
    /\ main_pc \in {"listening", "generating"}
    /\ CallsAbandoned
    /\ IF TooManyErrors(consecutive_errors + 1)
       THEN /\ sp_last' \in Spoken(SAY_RESTART)
            /\ turn_spoken' = turn_spoken \o <<SAY_ERROR, SAY_RESTART>>
            /\ conversation_active' = FALSE
            /\ main_pc' = "done"
       ELSE /\ sp_last' \in Spoken(SAY_ERROR)
            /\ turn_spoken' = Append(turn_spoken, SAY_ERROR)
            /\ main_pc' = "top"
            /\ UNCHANGED conversation_active
    /\ consecutive_errors' = consecutive_errors + 1
    /\ UNCHANGED <<san, spk, srvVars, sigVars, user_input, turns, turn_generated>>

\* main, from the greeting on.
Init ==
    /\ san = SanIdle
    /\ spk = SpkIdle
    /\ SrvIdle
    /\ SigIdle
    /\ PtIdle
    /\ LsIdle
    /\ main_pc = "greet"
    /\ conversation_active = TRUE
    /\ consecutive_errors = 0
    /\ user_input = PyNone
    /\ turns = 0
    /\ turn_spoken = <<>>
    /\ turn_generated = 0
    /\ sp_last = SpNone

Next ==
    \/ main_greet
    \/ main_loop
    \/ main_after_listen
    \/ main_after_generate
    \/ main_exception
    \/ listen_to_speech_loop
    \/ listen_to_speech_attempt
    \/ process_text_validate
    \/ process_text_loop
    \/ process_text_success
    \/ process_text_rate_limit
    \/ process_text_sleep
    \/ process_text_api_error
    \/ process_text_exception
    \/ signal_handler

Spec == Init /\ [][Next]_vars

\* The steps of the program itself: every step but the arrival of a signal.
Run ==
    \/ main_greet
    \/ main_loop
    \/ main_after_listen
    \/ main_after_generate
    \/ main_exception
    \/ listen_to_speech_loop
    \/ listen_to_speech_attempt
    \/ process_text_validate
    \/ process_text_loop
    \/ process_text_success
    \/ process_text_rate_limit
    \/ process_text_sleep
    \/ process_text_api_error
    \/ process_text_exception

\* process_text called with any text, max_retries and initial_delay.
PtInit ==
    /\ san = SanIdle
    /\ spk = SpkIdle
    /\ SrvIdle
    /\ SigIdle
    /\ LsIdle
    /\ MainIdle
    /\ pt_pc = "start"
    /\ \/ /\ pt_text \in PtShortTexts
          /\ max_retries \in (-1)..MaxRetries
          /\ initial_delay \in (-1)..MaxInitialDelay
       \/ /\ pt_text \in PtLongTexts
          /\ max_retries = DEFAULT_MAX_RETRIES
          /\ initial_delay = DEFAULT_INITIAL_DELAY
    /\ retry_count = 0
    /\ delay = 0
    /\ pt_ret = NoValue
    /\ pt_outcomes = <<>>
    /\ pt_sleeps = <<>>

PtNext ==
    \/ process_text_validate
    \/ process_text_loop
    \/ process_text_success
    \/ process_text_rate_limit
    \/ process_text_sleep
    \/ process_text_api_error
    \/ process_text_exception
    \/ signal_handler

SpecProcessText == PtInit /\ [][PtNext]_vars

\* ------------------------------------------------------ ConnectionManager
\* self.active_connections.append(websocket), once accept() has returned
connect(connections, websocket) == Append(connections, websocket)

\* self.active_connections.remove(websocket): the first occurrence goes.
disconnect(connections, websocket) ==
    LET at == {i \in 1..Len(connections) : connections[i] = websocket}
    IN  IF at = {} THEN connections
        ELSE SubSeq(connections, 1, SetMin(at) - 1)
             \o SubSeq(connections, SetMin(at) + 1, Len(connections))

\* ---------------------------------------------------------- text_to_speech
\* What the environment does in one call of text_to_speech: the temporary
\* file cannot be created ("no_file"), gTTS or the read raises ("raises"), or
\* the audio is written and read back ("ok").  gTTS refuses an empty text.
SynthesisOutcomes(text) ==
    IF text = "" THEN {"no_file", "raises"} ELSE {"no_file", "raises", "ok"}

\* text_to_speech returning an empty string, not None, when it fails.
text_to_speech_EmptyOnError(text, o) ==
    [audio |-> IF o = "ok" THEN "base64" ELSE "",
     file_left |-> o # "no_file"]

\* text_to_speech(text) under outcome o: the value returned (the base64 text,
\* or None) and whether the file of NamedTemporaryFile(delete=False), which
\* nothing unlinks, is there when it returns.
text_to_speech(text, o) ==
    [audio |-> IF o = "ok" THEN "base64" ELSE "null",
     file_left |-> o # "no_file"]

\* ------------------------------------------------ process_text_with_openai
FALLBACK_REPLY ==
    "Hmm, I'm having trouble thinking of a response right now. Could we try that again?"

\* What response.choices[0].message['content'] can be.
ReplyTexts == {"Hi there!", ""}

\* The values process_text_with_openai can return: the content of the
\* response, or the fixed reply when the call raised.
Replies == ReplyTexts \cup {FALLBACK_REPLY}

\* ------------------------------------------------------ websocket_endpoint
\* The payloads a client sends: text that is not JSON, JSON that is no
\* object, and objects with and without their fields ("absent": the object
\* has no such key).
Payloads ==
    {[shape |-> "malformed", type |-> "", text |-> "", audio |-> ""],
     [shape |-> "list", type |-> "", text |-> "", audio |-> ""],
     [shape |-> "object", type |-> "ping", text |-> "", audio |-> ""],
     [shape |-> "object", type |-> "text", text |-> "Hello", audio |-> ""],
     [shape |-> "object", type |-> "text", text |-> "", audio |-> ""],
     [shape |-> "object", type |-> "audio", text |-> "", audio |-> "absent"],
     [shape |-> "object", type |-> "audio", text |-> "", audio |-> ""],
     [shape |-> "object", type |-> "audio", text |-> "", audio |-> "bad padding"],
     [shape |-> "object", type |-> "audio", text |-> "", audio |-> "UklGRg=="]}

\* The test for audio data taking only a missing key for no data.
NoAudioData_MissingOnly(audio_base64) == audio_base64 = "absent"

\* if not audio_base64: data.get("audio") gave None or an empty string
NoAudioData(audio_base64) == audio_base64 \in {"absent", ""}

\* A message sent to the client.
Sent(type, text, audio) == [type |-> type, text |-> text, audio |-> audio]

\* A send that does not happen.
send_json_Dropped(sent, message) == sent

\* await websocket.send_json(message): the message follows those sent before.
send_json(sent, message) == Append(sent, message)

\* No call of text_to_speech is running.
NoCall == [chan |-> 0, text |-> ""]

\* The event loop can run a handler: no call of text_to_speech, which awaits
\* nothing while gTTS fetches and writes the audio, is holding it.
LoopFree == tts_call = NoCall

\* The messages received on the channels 1..n.
RECURSIVE Received(_)
Received(n) == IF n = 0 THEN 0 ELSE ws_recv[n] + Received(n - 1)

\* What a step of a WebSocket handler leaves alone.
srvRest == <<san, spk, cliVars, chat>>

\* await manager.connect(websocket): the handshake, then the append.
ws_connect(c) ==
    /\ LoopFree
    /\ ws_pc[c] = "idle"
    /\ active_connections' = connect(active_connections, c)
    /\ ws_pc' = [ws_pc EXCEPT ![c] = "receive"]
    /\ UNCHANGED <<ws_msg, ws_recv, ws_sent, ws_end, ws_exc, ws_files, ws_calls, tts_call>>
    /\ UNCHANGED srvRest

\* receive_text() raises WebSocketDisconnect: manager.disconnect(websocket).
\* The handler returns, and what was recorded of its last message is dropped.
ws_disconnect(c) ==
    /\ LoopFree
    /\ ws_pc[c] = "receive"
    /\ active_connections' = disconnect(active_connections, c)
    /\ ws_pc' = [ws_pc EXCEPT ![c] = "ended"]
    /\ ws_end' = [ws_end EXCEPT ![c] = "disconnect"]
    /\ ws_msg' = [ws_msg EXCEPT ![c] = NoMsg]
    /\ ws_sent' = [ws_sent EXCEPT ![c] = <<>>]
    /\ ws_exc' = [ws_exc EXCEPT ![c] = FALSE]
    /\ ws_files' = [ws_files EXCEPT ![c] = {}]
    /\ ws_calls' = [ws_calls EXCEPT ![c] = <<>>]
    /\ UNCHANGED <<ws_recv, tts_call>>
    /\ UNCHANGED srvRest

\* receive_text() returns a message: json.loads, then the branch on its type,
\* up to the next await.  An exception outside the audio branch's try block
\* reaches the handler's last except clause, which closes the socket.  The
\* audio branch's NamedTemporaryFile(delete=False) is unlinked nowhere.
ws_receive(c) ==
    /\ LoopFree
    /\ ws_pc[c] = "receive"
    /\ Received(NumChans) < MaxMsgs
    /\ ws_recv' = [ws_recv EXCEPT ![c] = @ + 1]
    /\ ws_calls' = [ws_calls EXCEPT ![c] = <<>>]
    /\ \E m \in Payloads :
         /\ ws_msg' = [ws_msg EXCEPT ![c] = m]
         /\ CASE m.shape # "object" ->
                /\ ws_exc' = [ws_exc EXCEPT ![c] = TRUE]
                /\ ws_pc' = [ws_pc EXCEPT ![c] = "ended"]
                /\ ws_end' = [ws_end EXCEPT ![c] = "error"]
                /\ ws_sent' = [ws_sent EXCEPT ![c] = <<>>]
                /\ ws_files' = [ws_files EXCEPT ![c] = {}]
           [] m.shape = "object" /\ m.type = "audio" /\ NoAudioData(m.audio) ->
                /\ ws_sent' = [ws_sent EXCEPT ![c] =
                       send_json(<<>>, Sent("error", "No audio data received", "absent"))]
                /\ ws_exc' = [ws_exc EXCEPT ![c] = FALSE]
                /\ ws_files' = [ws_files EXCEPT ![c] = {}]
                /\ UNCHANGED <<ws_pc, ws_end>>
           [] m.shape = "object" /\ m.type = "audio" /\ ~NoAudioData(m.audio)
                 /\ m.audio = "bad padding" ->
                /\ ws_files' = [ws_files EXCEPT ![c] = {"wav"}]
                /\ ws_exc' = [ws_exc EXCEPT ![c] = TRUE]
                /\ ws_sent' = [ws_sent EXCEPT ![c] =
                       send_json(<<>>, Sent("error", "Error processing audio: {e}", "absent"))]
                /\ UNCHANGED <<ws_pc, ws_end>>
           [] m.shape = "object" /\ m.type = "audio" /\ ~NoAudioData(m.audio)
                 /\ m.audio # "bad padding" ->
                /\ ws_files' = [ws_files EXCEPT ![c] = {"wav"}]
                /\ ws_pc' = [ws_pc EXCEPT ![c] = "transcribe"]
                /\ ws_exc' = [ws_exc EXCEPT ![c] = FALSE]
                /\ ws_sent' = [ws_sent EXCEPT ![c] = <<>>]
                /\ UNCHANGED ws_end
           [] m.shape = "object" /\ m.type = "text" ->
                /\ ws_pc' = [ws_pc EXCEPT ![c] = "generate"]
                /\ ws_exc' = [ws_exc EXCEPT ![c] = FALSE]
                /\ ws_sent' = [ws_sent EXCEPT ![c] = <<>>]
                /\ ws_files' = [ws_files EXCEPT ![c] = {}]
                /\ UNCHANGED ws_end
           [] OTHER ->
                /\ ws_exc' = [ws_exc EXCEPT ![c] = FALSE]
                /\ ws_sent' = [ws_sent EXCEPT ![c] = <<>>]
                /\ ws_files' = [ws_files EXCEPT ![c] = {}]
                /\ UNCHANGED <<ws_pc, ws_end>>
    /\ UNCHANGED <<active_connections, tts_call>>
    /\ UNCHANGED srvRest

\* openai.Audio.atranscribe returns a transcript, which is handed to
\* process_text_with_openai, or raises; the audio branch's except clause
\* answers an exception with an error message.
ws_transcribed(c) ==
    /\ LoopFree
    /\ ws_pc[c] = "transcribe"
    /\ ws_calls' = [ws_calls EXCEPT ![c] = Append(@, "transcribe")]
    /\ \/ /\ ws_pc' = [ws_pc EXCEPT ![c] = "generate"]
          /\ UNCHANGED <<ws_sent, ws_exc>>
       \/ /\ ws_exc' = [ws_exc EXCEPT ![c] = TRUE]
          /\ ws_sent' = [ws_sent EXCEPT ![c] =
                 send_json(@, Sent("error", "Error processing audio: {e}", "absent"))]
          /\ ws_pc' = [ws_pc EXCEPT ![c] = "receive"]
    /\ UNCHANGED <<active_connections, ws_msg, ws_recv, ws_end, ws_files, tts_call>>
    /\ UNCHANGED srvRest

\* process_text_with_openai returns (ChatCompletion.acreate returned or
\* raised) and text_to_speech(response_text) is entered.
ws_generated(c) ==
    /\ LoopFree
    /\ ws_pc[c] = "generate"
    /\ ws_calls' = [ws_calls EXCEPT ![c] = Append(@, "generate")]
    /\ \E response_text \in Replies :
         tts_call' = [chan |-> c, text |-> response_text]
    /\ ws_pc' = [ws_pc EXCEPT ![c] = "synthesize"]
    /\ UNCHANGED <<active_connections, ws_msg, ws_recv, ws_sent, ws_end, ws_exc, ws_files>>
    /\ UNCHANGED srvRest

\* text_to_speech returns and the reply is sent.
ws_synthesized(c) ==
    /\ ws_pc[c] = "synthesize"
    /\ tts_call.chan = c
    /\ ws_calls' = [ws_calls EXCEPT ![c] = Append(@, "synthesize")]
    /\ \E o \in SynthesisOutcomes(tts_call.text) :
         LET tts == text_to_speech(tts_call.text, o)
             type == IF ws_msg[c].type = "audio" THEN "audio_response" ELSE "text_response"
         IN  /\ ws_files' = [ws_files EXCEPT ![c] =
                    IF tts.file_left THEN @ \cup {"mp3"} ELSE @]
             /\ ws_sent' = [ws_sent EXCEPT ![c] =
                    send_json(@, Sent(type, tts_call.text, tts.audio))]
    /\ tts_call' = NoCall
    /\ ws_pc' = [ws_pc EXCEPT ![c] = "receive"]
    /\ UNCHANGED <<active_connections, ws_msg, ws_recv, ws_end, ws_exc>>
    /\ UNCHANGED srvRest

\* The server, with no connection yet.
SrvInit ==
    /\ san = SanIdle
    /\ spk = SpkIdle
    /\ SigIdle
    /\ PtIdle
    /\ LsIdle
    /\ MainIdle
    /\ SrvIdle

SrvNext ==
    \E c \in Chans :
        \/ ws_connect(c)
        \/ ws_disconnect(c)
        \/ ws_receive(c)
        \/ ws_transcribed(c)
        \/ ws_generated(c)
        \/ ws_synthesized(c)

SpecServer == SrvInit /\ [][SrvNext]_vars

\* --------------------------------------- listen_to_speech, called directly
\* The values of initial_timeout listen_to_speech is called with, in seconds.
InitialTimeouts == {0, 5, 20}

\* The arguments are checked: a max_attempts below 1 and an initial_timeout
\* that is not positive are replaced by the defaults.
listen_to_speech_start ==
    /\ ls_pc = "start"
    /\ max_attempts' = IF max_attempts < 1 THEN DEFAULT_MAX_ATTEMPTS ELSE max_attempts
    /\ timeout' = IF timeout <= 0 THEN Ticks(DEFAULT_INITIAL_TIMEOUT) ELSE timeout
    /\ attempts' = 0
    /\ ls_pc' = "loop"
    /\ UNCHANGED <<ls_ret, ls_log, sp_last, turn_spoken>>
    /\ UNCHANGED lsRest

\* listen_to_speech called with any max_attempts and initial_timeout, its
\* passes recorded.
LsInit ==
    /\ san = SanIdle
    /\ spk = SpkIdle
    /\ SrvIdle
    /\ SigIdle
    /\ PtIdle
    /\ main_pc = "off"
    /\ conversation_active = FALSE
    /\ consecutive_errors = 0
    /\ user_input = PyNone
    /\ turns = 0
    /\ turn_spoken = <<>>
    /\ turn_generated = 0
    /\ sp_last = SpNone
    /\ ls_pc = "start"
    /\ max_attempts \in 0..MaxAttempts
    /\ timeout \in {Ticks(t) : t \in InitialTimeouts}
    /\ attempts = 0
    /\ ls_ret = PyNone
    /\ ls_log = LogOn

LsNext ==
    \/ listen_to_speech_start
    \/ listen_to_speech_loop
    \/ listen_to_speech_attempt
    \/ signal_handler

SpecListen == LsInit /\ [][LsNext]_vars

\* ---------------------------------------------------------- POST /api/chat
\* What one call of ChatCompletion.acreate does: it returns a response with
\* a content, or raises.
GenerationOutcomes ==
    {[k |-> "ok", content |-> t] : t \in ReplyTexts} \cup {[k |-> "raised", content |-> ""]}

\* process_text_with_openai(text) under outcome o: its except clause turns
\* every exception into the fixed reply, so it returns and never raises.
process_text_with_openai(text, o) ==
    [raised |-> FALSE, value |-> IF o.k = "ok" THEN o.content ELSE FALLBACK_REPLY]

\* The texts of the requests.
ChatTexts == {"Hello", ""}

\* chat(request), given how process_text_with_openai ended: {"response": ...}
\* with status 200 when it returned, HTTPException(500) when it raised.
chat_response(result) ==
    IF result.raised THEN [status |-> 500, body |-> "detail"]
    ELSE [status |-> 200, body |-> result.value]

\* A request arrives and chat awaits process_text_with_openai(request.text).
chat_request(r) ==
    /\ chat[r].pc = "idle"
    /\ \E text \in ChatTexts :
         chat' = [chat EXCEPT ![r] = [NoRequest EXCEPT !.pc = "generating", !.text = text]]
    /\ UNCHANGED <<san, spk, cliVars, wsVars>>

\* process_text_with_openai has ended and chat answers.
chat_respond(r) ==
    /\ chat[r].pc = "generating"
    /\ \E o \in GenerationOutcomes :
         LET answer == chat_response(process_text_with_openai(chat[r].text, o))
         IN  chat' = [chat EXCEPT ![r] = [pc |-> "done", text |-> @.text,
                                          generation |-> o.k,
                                          status |-> answer.status, body |-> answer.body]]
    /\ UNCHANGED <<san, spk, cliVars, wsVars>>

\* The HTTP endpoint, with no request yet.
ChatInit ==
    /\ san = SanIdle
    /\ spk = SpkIdle
    /\ SigIdle
    /\ PtIdle
    /\ LsIdle
    /\ MainIdle
    /\ SrvIdle

ChatNext == \E r \in Requests : chat_request(r) \/ chat_respond(r)

SpecChat == ChatInit /\ [][ChatNext]_vars

\* C14: POST /api/chat answers with status 200 and the response when the
\* generation call succeeded, and with status 500 and an error body when the
\* generation call failed.
C14_ChatStatus ==
    \A r \in Requests : chat[r].pc = "done" =>
        /\ chat[r].generation = "ok" => chat[r].status = 200 /\ chat[r].body \in ReplyTexts
        /\ chat[r].generation = "raised" => chat[r].status = 500 /\ chat[r].body = "detail"

\* ------------------------------------------------- claims: process_text
\* Every outcome of seq is a rate-limit error.
AllRateLimited(seq) == \A i \in 1..Len(seq) : seq[i].k = "rate_limit"

\* C1: with max_retries = M >= 1, the shutdown flag not set (and a delay
\* time.sleep accepts): after N < M rate-limit errors and then a success,
\* N + 1 calls and N retries were made and the (stripped) reply is returned;
\* a run of rate-limit errors never gets longer than M, process_text does not
\* return before the M-th of them, and then it returns the fixed string.
C1_RateLimitRetries ==
    (max_retries >= 1 /\ ~shutdown_flag /\ initial_delay >= 0 /\ pt_outcomes # <<>>) =>
        LET n == Len(pt_outcomes)
            last == pt_outcomes[n]
            before == SubSeq(pt_outcomes, 1, n - 1)
        IN  /\ (AllRateLimited(before) /\ last.k = "ok") =>
                /\ n - 1 < max_retries
                /\ pt_pc = "done"
                /\ Len(pt_sleeps) = n - 1
                /\ retry_count = n - 1
                /\ pt_ret = Text(Strip(last.content))
            /\ AllRateLimited(pt_outcomes) =>
                /\ n <= max_retries
                /\ (n < max_retries => pt_pc \in {"sleep", "loop", "call"})
                /\ (n = max_retries =>
                      /\ pt_pc = "done"
                      /\ pt_ret = MSG_TOO_MANY
                      /\ Len(pt_sleeps) = max_retries - 1)

\* Two rate-limit errors, then a success, with the flag not set.
C1_Witness ==
    /\ pt_pc = "done"
    /\ ~shutdown_flag
    /\ initial_delay >= 0
    /\ Len(pt_outcomes) = 3
    /\ AllRateLimited(SubSeq(pt_outcomes, 1, 2))
    /\ pt_outcomes[3].k = "ok"
    /\ pt_ret.v # <<>>

\* C2: the delays slept between retries never decrease and none is above
\* the maximum delay, whatever initial_delay and max_retries are.
C2_BackoffCapped ==
    \A i \in 1..Len(pt_sleeps) :
        /\ pt_sleeps[i] <= MAX_DELAY
        /\ (i > 1 => pt_sleeps[i - 1] <= pt_sleeps[i])

\* C7: a text whose stripped length is above the maximum gets the too-long
\* message for that maximum, and no chat-completion call is made for it.
C7_TooLongRejected ==
    (pt_pc \notin {"off", "start"} /\ IsStr(pt_text)
        /\ Len(Strip(pt_text.v)) > MAX_INPUT_LENGTH) =>
        /\ pt_pc = "done"
        /\ pt_ret = TooLongMsg(MAX_INPUT_LENGTH)
        /\ pt_outcomes = <<>>
        /\ validate_input(pt_text, MAX_INPUT_LENGTH).result = pt_ret

\* A padded text of more than the maximum of letters was rejected.
C7_Witness ==
    /\ pt_pc = "done"
    /\ IsStr(pt_text)
    /\ Len(pt_text.v) > Len(Strip(pt_text.v))
    /\ Len(Strip(pt_text.v)) = MAX_INPUT_LENGTH + 1
    /\ pt_ret.k = "too_long"
    /\ pt_ret.n = MAX_INPUT_LENGTH

\* The text is empty, white space only, or not a string.
NothingSaid(text) == ~IsStr(text) \/ Strip(text.v) = <<>>

\* C8: for an input that is empty, white space only or not a string,
\* validate_input gives (False, the didn't-catch-that message) and
\* process_text returns that message without a chat-completion call.
C8_EmptyRejected ==
    (pt_pc \notin {"off", "start"} /\ NothingSaid(pt_text)) =>
        /\ validate_input(pt_text, MAX_INPUT_LENGTH) = [ok |-> FALSE, result |-> MSG_REPEAT]
        /\ pt_pc = "done"
        /\ pt_ret = MSG_REPEAT
        /\ pt_outcomes = <<>>

\* A text of white space only was rejected.
C8_Witness ==
    /\ pt_pc = "done"
    /\ IsStr(pt_text)
    /\ pt_text.v # <<>>
    /\ Strip(pt_text.v) = <<>>
    /\ pt_ret = MSG_REPEAT

\* The fixed strings process_text returns when it gives up.
Apologies == {MSG_TOO_MANY, MSG_CONNECTING, MSG_ERROR, MSG_TROUBLE}

\* C15: once a chat-completion call has failed with an error that is not a
\* rate-limit response, process_text makes no further call and returns a
\* fixed apology: only a rate-limit error is ever followed by another call.
C15_OtherErrorsNotRetried ==
    \A i \in 1..Len(pt_outcomes) :
        pt_outcomes[i].k \notin {"ok", "rate_limit"} =>
            /\ i = Len(pt_outcomes)
            /\ pt_pc # "call"
            /\ pt_pc = "done" => pt_ret \in Apologies

\* The steps of process_text, the arrival of a signal aside.
PtRun ==
    \/ process_text_validate
    \/ process_text_loop
    \/ process_text_success
    \/ process_text_rate_limit
    \/ process_text_sleep
    \/ process_text_api_error
    \/ process_text_exception

\* The steps a call of process_text has left at most: three for each retry
\* it may still count (the test, the call, the sleep) and the last test.
PtWorkLeft ==
    LET left == 3 * (Max(max_retries, 0) - retry_count)
    IN  CASE pt_pc = "start" -> 3 * Max(max_retries, 0) + 3
          [] pt_pc = "sleep" -> left + 3
          [] pt_pc = "loop" -> left + 2
          [] pt_pc = "call" -> left + 1
          [] OTHER -> 0

\* A string, as process_text returns it: a reply or one of its messages.
IsString(value) == value.k \in {"text", "msg", "too_long"}

\* C23, of the states, for a delay time.sleep accepts: no more
\* chat-completion calls have been made than max_retries, none when
\* max_retries <= 0; the call of process_text has not been left by an
\* exception; when it has returned it has returned a string; until then it
\* has a step to take.
C23_Calls ==
    initial_delay >= 0 =>
        /\ Len(pt_outcomes) <= Max(max_retries, 0)
        /\ max_retries <= 0 => pt_outcomes = <<>>
        /\ pt_pc # "raised"
        /\ pt_pc = "done" => IsString(pt_ret)
        /\ pt_pc \notin {"done", "off"} => ENABLED PtRun

\* C23: for every text, every max_retries and every sequence of outcomes of
\* the chat-completion call (a reply, a rate-limit error, an API error,
\* another exception, no choices), with a delay time.sleep accepts
\* (initial_delay >= 0): process_text ends after at most max_retries calls,
\* every step of it leaving fewer steps to its end, and returns a string;
\* with max_retries <= 0 it makes no call.
C23_Terminates ==
    /\ []C23_Calls
    /\ [][(initial_delay >= 0 /\ ptVars' # ptVars) => PtWorkLeft' < PtWorkLeft]_vars

\* process_text has returned after as many calls as max_retries allows, at
\* least three, a rate-limit error and another failure among their outcomes.
C23_Witness ==
    /\ pt_pc = "done"
    /\ initial_delay >= 0
    /\ max_retries >= 3
    /\ Len(pt_outcomes) = max_retries
    /\ \E i \in 1..Len(pt_outcomes) : pt_outcomes[i].k = "rate_limit"
    /\ \E i \in 1..Len(pt_outcomes) : pt_outcomes[i].k \in {"exception", "no_choices"}
    /\ IsString(pt_ret)

\* ------------------------------------------------------ claims: speak_text
\* Step e was taken in the call, at place Place(events, e) of its steps (0:
\* it was not taken).
Taken(events, e) == \E i \in 1..Len(events) : events[i] = e
Place(events, e) == IF Taken(events, e) THEN CHOOSE i \in 1..Len(events) : events[i] = e ELSE 0

\* C20: the fallback player is invoked only after the primary playback
\* raised; the text is printed only after both playbacks failed or the
\* synthesis failed; speak_text returns True exactly when the primary or the
\* fallback playback succeeded.
C20_PlaybackOrder ==
    spk.pc = "done" =>
        LET ev == spk.result.events
            o == spk.outcome
            played(e) == Taken(ev, e) /\ o[e] = "ok"
            failed(e) == Taken(ev, e) /\ o[e] = "raises"
        IN  /\ Taken(ev, "fallback") =>
                  failed("primary") /\ Place(ev, "primary") < Place(ev, "fallback")
            /\ Taken(ev, "primary") =>
                  o.synth = "ok" /\ Place(ev, "synth") < Place(ev, "primary")
            /\ Taken(ev, "print") =>
                  /\ Place(ev, "print") = Len(ev)
                  /\ \/ o.synth # "ok" /\ ev = <<"synth", "print">>
                     \/ failed("primary") /\ failed("fallback")
            /\ spk.result.success <=> (played("primary") \/ played("fallback"))
            /\ (o.synth = "ok" /\ ev # <<>>) => Taken(ev, "primary")

\* Both playbacks failed: the text was printed and False returned.
C20_Witness ==
    /\ spk.pc = "done"
    /\ spk.result.events = <<"synth", "primary", "fallback", "print">>
    /\ ~spk.result.success
    /\ spk.outcome.primary = "raises"
    /\ spk.outcome.fallback = "raises"

\* ------------------------------------------------ claims: listen_to_speech
\* The pass opened the microphone and tried to capture audio.
Captured(pass) == pass.k \notin {"none", "no_device", "mic_error"}

\* The pass got a text that is not empty from the recognizer.
Understood(pass) == pass.k = "text" /\ Strip(pass.text) # <<>>

\* C18: one call of listen_to_speech makes at most max_attempts attempts; the
\* retry feedback is spoken before every capture after the first attempt; a
\* text that is not empty is returned, stripped, by the attempt that got it;
\* a transcription service error makes it return None at once; once the last
\* attempt has failed no attempt follows and None is returned.
C18_ListenAttempts ==
    (ls_log.on /\ ls_pc # "start") =>
        LET last == ls_log.last
        IN  /\ ls_log.count <= max_attempts
            /\ (ls_log.count >= 2 /\ Captured(last)) => last.feedback
            /\ Understood(last) => ls_pc = "done" /\ ls_ret = Str(Strip(last.text))
            /\ last.k = "request_error" => ls_pc = "done" /\ ls_ret = PyNone
            /\ (ls_log.count = max_attempts /\ ~Understood(last)) =>
                  /\ ls_pc \in {"loop", "done"}
                  /\ ls_pc = "done" => ls_ret = PyNone
            /\ (ls_pc = "done" /\ ~Understood(last)) => ls_ret = PyNone

\* The third attempt, after two failures, got a padded text, which was
\* returned stripped.
C18_Witness ==
    /\ ls_log.on
    /\ ls_pc = "done"
    /\ ls_log.count = 3
    /\ ls_log.last.feedback
    /\ ls_log.last.text = <<" ", "h", "i", " ">>
    /\ ls_ret = Str(<<"h", "i">>)

\* C19: from one attempt to the next the timeout does not decrease and does
\* not pass the cap, whatever max_attempts is and whatever the attempts met
\* (stated for calls whose first timeout is within the caps).
C19_TimeoutEscalates ==
    (ls_log.on /\ ls_log.count >= 2 /\ ls_log.first <= Ticks(NO_AUDIO_TIMEOUT_CAP)) =>
        /\ ls_log.last.timeout >= ls_log.prev.timeout
        /\ ls_log.last.timeout <= Ticks(RETRY_TIMEOUT_CAP)

\* ------------------------------------------------------------ claims: main
\* The texts a farewell is spoken with.
Farewells == {SAY_FAREWELL, Msg("Goodbye!")}

\* A farewell was given to speak_text in the current iteration.
FarewellSpoken == \E i \in 1..Len(turn_spoken) : turn_spoken[i] \in Farewells

\* C9: when the text recognized in a turn holds an exit word, the loop ends
\* in that turn with the farewell spoken and no call of process_text.
C9_ExitPhraseFarewell ==
    (main_pc = "done" /\ IsExitRequest(user_input)) =>
        /\ FarewellSpoken
        /\ turn_generated = 0
        /\ ~conversation_active

\* C10: when a signal arrived while the loop was running, the loop has not
\* ended before a farewell was spoken.
C10_SignalFarewell ==
    (main_pc = "done" /\ signal_at \in {"listening", "generating"}) =>
        FarewellSpoken

\* The texts given to speak_text in the step taken.
SaidInStep == SubSeq(turn_spoken', Len(turn_spoken) + 1, Len(turn_spoken'))

\* The step gives text to speak_text.
SaysInStep(text) == \E i \in 1..Len(SaidInStep) : SaidInStep[i] = text

\* The step ends a turn with an exception caught by main.
ExceptionTurn ==
    /\ main_pc \in {"listening", "generating"}
    /\ main_pc' # main_pc
    /\ SaysInStep(SAY_ERROR)

\* The step ends a turn in which listen_to_speech returned no text and no
\* signal has arrived.
EmptyInputTurn ==
    /\ main_pc = "listening"
    /\ ls_pc = "done"
    /\ ~Truthy(ls_ret)
    /\ ~shutdown_flag
    /\ main_pc' # main_pc
    /\ ~SaysInStep(SAY_ERROR)

\* The loop has moved to its end with conversation_active cleared.
ShutsDown == main_pc' = "done" /\ ~conversation_active'

\* C11 as stated: the counter goes up by one on every turn with an empty
\* input or an exception; when it reaches the first threshold, on either kind
\* of turn, the warning is spoken and the counter is reset to 0; when it
\* exceeds the second threshold the loop shuts down.
C11_CounterThresholds ==
    [][(EmptyInputTurn \/ ExceptionTurn) =>
          LET counted == consecutive_errors + 1
          IN  /\ counted < MAX_CONSECUTIVE_ERRORS => consecutive_errors' = counted
              /\ (counted >= MAX_CONSECUTIVE_ERRORS /\ counted <= 2 * MAX_CONSECUTIVE_ERRORS) =>
                    /\ SaysInStep(SAY_CHECK_MICROPHONE)
                    /\ consecutive_errors' = 0
              /\ counted > 2 * MAX_CONSECUTIVE_ERRORS => ShutsDown]_vars

\* C11 as amended: the counter goes up by one on every turn with an empty
\* input (no signal pending) and on every turn with an exception.  On a turn
\* with an empty input, a count at or above the first threshold gets the
\* warning spoken and the counter reset to 0, and the loop goes on.  On a
\* turn with an exception there is no warning and no reset: the count is
\* kept, and the loop shuts down exactly when it exceeds the second threshold.
C11_ErrorCounter ==
    [][LET counted == consecutive_errors + 1
       IN  /\ EmptyInputTurn =>
                 /\ SaysInStep(MSG_REPEAT)
                 /\ main_pc' = "top" /\ conversation_active'
                 /\ IF counted >= MAX_CONSECUTIVE_ERRORS
                    THEN SaysInStep(SAY_CHECK_MICROPHONE) /\ consecutive_errors' = 0
                    ELSE ~SaysInStep(SAY_CHECK_MICROPHONE) /\ consecutive_errors' = counted
           /\ ExceptionTurn =>
                 /\ consecutive_errors' = counted
                 /\ ~SaysInStep(SAY_CHECK_MICROPHONE)
                 /\ IF counted > 2 * MAX_CONSECUTIVE_ERRORS
                    THEN ShutsDown /\ SaysInStep(SAY_RESTART)
                    ELSE main_pc' = "top" /\ conversation_active' /\ ~SaysInStep(SAY_RESTART)]_vars

\* The seventh exception in a row has shut the loop down.
C11_Witness ==
    /\ main_pc = "done"
    /\ ~conversation_active
    /\ consecutive_errors = 2 * MAX_CONSECUTIVE_ERRORS + 1
    /\ turn_spoken[Len(turn_spoken)] = SAY_RESTART

\* The steps main can take from one place to the next: the greeting, then
\* turns of listening (capture and transcription, inside listen_to_speech),
\* generating and speaking the reply, until the loop is left.
PhaseOrder ==
    {<<"greet", "top">>, <<"top", "listening">>, <<"top", "done">>,
     <<"listening", "generating">>, <<"listening", "top">>, <<"listening", "done">>,
     <<"generating", "top">>, <<"generating", "done">>}

\* What speak_text is given outside the reply phase.
Notices ==
    {SAY_GREETING, SAY_TRY_AGAIN, SAY_FAREWELL, SAY_CHECK_MICROPHONE, SAY_ERROR,
     SAY_RESTART, MSG_REPEAT}

\* The step speaks a reply: a text that is none of the notices.
SpeaksReply == \E i \in 1..Len(SaidInStep) : SaidInStep[i] \notin Notices

\* The step starts a listening phase, a pass of the loop of listen_to_speech,
\* a call of process_text, a chat-completion call.
StartsListening == ls_pc = "off" /\ ls_pc' # "off"
StartsAttempt == ls_pc = "loop" /\ ls_pc' = "attempt"
StartsGeneration == pt_pc = "off" /\ pt_pc' # "off"
StartsCall == pt_pc = "loop" /\ pt_pc' = "call"

\* The text is a string with something in it besides white space, and holds
\* no exit word.
Request(text) ==
    /\ IsStr(text)
    /\ Strip(text.v) # <<>>
    /\ \A w \in ExitWords : ~Contains(Lower(text.v), w)

\* C21, of the states: before the greeting nothing has been listened to,
\* generated or spoken; process_text runs only in the generating phase of a
\* turn whose recognized text is not empty and holds no exit word, at most
\* once in a turn; listen_to_speech runs only in the listening phase; once
\* the loop is left neither runs.
C21_Phases ==
    /\ main_pc = "greet" =>
          turns = 0 /\ turn_spoken = <<>> /\ ls_pc = "off" /\ pt_pc = "off"
    /\ ls_pc # "off" <=> main_pc = "listening"
    /\ pt_pc # "off" <=> main_pc = "generating"
    /\ main_pc = "generating" => Request(user_input) /\ pt_text.v = Strip(user_input.v)
    /\ turn_generated = (IF main_pc = "generating" THEN 1 ELSE turn_generated)
    /\ turn_generated \in {0, 1}
    /\ main_pc = "listening" => turn_generated = 0

\* C21, of the steps: main moves only along the order of the phases; the
\* greeting is spoken in the one step that leaves the start, and in no other;
\* a call of process_text starts only when listen_to_speech has returned a
\* request, with that request; a reply is spoken only when the call of
\* process_text of the turn has returned, it is what the call returned (or
\* the notice that nothing was), and listening follows; and once the loop is
\* left nothing is listened to, generated or spoken any more.
C21_Steps ==
    /\ main_pc' # main_pc => <<main_pc, main_pc'>> \in PhaseOrder
    /\ SaysInStep(SAY_GREETING) <=> main_pc = "greet" /\ main_pc' = "top"
    /\ StartsListening => main_pc = "top" /\ main_pc' = "listening" /\ turns' = turns + 1
    /\ StartsAttempt => main_pc = "listening"
    /\ StartsGeneration =>
          /\ main_pc = "listening" /\ ls_pc = "done"
          /\ Request(ls_ret)
          /\ user_input' = ls_ret /\ pt_text' = ls_ret
          /\ turn_generated = 0 /\ turn_generated' = 1
    /\ StartsCall => main_pc = "generating" /\ turn_generated = 1
    /\ SpeaksReply =>
          /\ main_pc = "generating" /\ pt_pc = "done" /\ turn_generated = 1
          /\ SaidInStep = <<IF HasResponse(pt_ret) THEN pt_ret ELSE SAY_NO_RESPONSE>>
          /\ main_pc' = "top"
    /\ main_pc = "done" =>
          /\ main_pc' = "done"
          /\ UNCHANGED <<ptVars, lsVars, sp_last, conversation_active, consecutive_errors,
                         user_input, turns, turn_spoken, turn_generated>>

\* C21: the phases of the CLI loop occur only in the order listening (with
\* transcription), generating, speaking, listening: the greeting is spoken
\* exactly once and before the first listening phase, a generation call is
\* made only in a turn whose transcription produced non-empty text that is
\* not an exit phrase, a reply is spoken only after that turn's generation
\* call returned, and nothing follows the end of the loop.
C21_PhaseOrder == []C21_Phases /\ [][C21_Steps]_vars

\* A second turn has ended with the reply of the model spoken, the loop
\* going back to listening.
C21_Witness ==
    /\ main_pc = "top"
    /\ turns >= 2
    /\ turn_generated = 1
    /\ turn_spoken # <<>>
    /\ turn_spoken[Len(turn_spoken)].k = "text"
    /\ conversation_active /\ ~shutdown_flag

\* C22, of the steps: once set the flag stays set, and with the flag set no
\* pass of the loop of listen_to_speech and no chat-completion call starts.
\* Each test of the flag ends what it guards: the loop of main ends at the
\* top of an iteration, after listen_to_speech has returned and after
\* process_text has returned, with nothing spoken, and the loops of
\* listen_to_speech and process_text end before their next pass.
C22_Steps ==
    shutdown_flag =>
        /\ shutdown_flag'
        /\ ~StartsAttempt
        /\ ~StartsCall
        /\ (main_pc = "top" /\ main_pc' # "top") => main_pc' = "done"
        /\ (main_pc = "listening" /\ ls_pc = "done" /\ main_pc' # main_pc /\ ~ExceptionTurn) =>
              main_pc' = "done" /\ turn_spoken' = turn_spoken /\ pt_pc' = "off"
        /\ (main_pc = "generating" /\ pt_pc = "done" /\ main_pc' # main_pc /\ ~ExceptionTurn) =>
              main_pc' = "done" /\ turn_spoken' = turn_spoken
        /\ (ls_pc = "loop" /\ ls_pc' # "loop" /\ ~ExceptionTurn) =>
              ls_pc' = "done" /\ ls_ret' = PyNone /\ turn_spoken' = turn_spoken
        /\ (pt_pc = "loop" /\ pt_pc' # "loop" /\ ~ExceptionTurn) =>
              pt_pc' = "done" /\ pt_ret' = MSG_TROUBLE /\ pt_outcomes' = pt_outcomes

\* The steps main has left at most before its loop ends, when the flag is
\* set: the rest of the call in progress, then the test that ends the loop.
WorkLeft ==
    CASE main_pc = "done" -> 0
      [] main_pc = "top" -> 1
      [] main_pc = "greet" -> 2
      [] main_pc = "listening" ->
            2 + (CASE ls_pc = "attempt" -> 2 [] ls_pc = "loop" -> 1 [] OTHER -> 0)
      [] main_pc = "generating" ->
            2 + (CASE pt_pc = "call" -> 3
                   [] pt_pc \in {"start", "sleep"} -> 2
                   [] pt_pc = "loop" -> 1
                   [] OTHER -> 0)
      [] OTHER -> 0

\* C22, of the end of the loop: with the flag set, until the loop of main
\* has ended the program always has a step to take, and every step leaves
\* fewer steps to the end of the loop.
C22_Finishes ==
    /\ [](shutdown_flag /\ main_pc # "done" => ENABLED Run)
    /\ [][shutdown_flag => WorkLeft' < WorkLeft]_vars

\* C22: once the shutdown flag is set it is never cleared, and from then on
\* no new listening attempt and no new generation call starts: the flag is
\* tested at the top of each iteration of main, after listening, after
\* generation and before each pass of the loops of listen_to_speech and
\* process_text, so that the phase in progress finishes and the loop of main
\* ends.
C22_CooperativeShutdown == [][C22_Steps]_vars /\ C22_Finishes

\* A signal arrived while process_text was running; the loop of main has
\* ended on the flag, with conversation_active still set.
C22_Witness ==
    /\ main_pc = "done"
    /\ shutdown_flag
    /\ signal_at = "generating"
    /\ conversation_active
    /\ turn_generated = 1

\* The step ends a turn in which a text was recognized and process_text was
\* called and has returned, with the reply spoken: no exception reached
\* main and no signal ended the loop.
RepliedTurn ==
    /\ main_pc = "generating"
    /\ pt_pc = "done"
    /\ main_pc' = "top"
    /\ ~ExceptionTurn

\* C24, of the states: while the loop of main runs the counter is between 0
\* and 2 x MAX_CONSECUTIVE_ERRORS; past that the loop has been shut down.
C24_Range ==
    /\ consecutive_errors \in 0..(2 * MAX_CONSECUTIVE_ERRORS + 1)
    /\ consecutive_errors > 2 * MAX_CONSECUTIVE_ERRORS =>
          main_pc = "done" /\ ~conversation_active
    /\ main_pc \in {"top", "listening", "generating"} =>
          consecutive_errors \in 0..(2 * MAX_CONSECUTIVE_ERRORS)

\* C24, of the steps: an iteration starts with the counter between 0 and
\* 2 x MAX_CONSECUTIVE_ERRORS, and a turn that ends with the reply spoken
\* leaves the counter at 0, whatever process_text returned.
C24_Steps ==
    /\ StartsListening => consecutive_errors \in 0..(2 * MAX_CONSECUTIVE_ERRORS)
    /\ RepliedTurn => consecutive_errors' = 0

\* C24: at the start of every iteration of the loop of main the counter of
\* consecutive errors is between 0 and 2 x MAX_CONSECUTIVE_ERRORS (6), for
\* every interleaving of turns with no input, with an exception and with a
\* reply, and it is 0 after every turn in which a text was recognized and
\* the generation call was made and answered, whatever the call returned.
C24_CounterBounded == []C24_Range /\ [][C24_Steps]_vars

\* Six errors have been counted in a row and the loop is about to start
\* another iteration.
C24_Witness ==
    /\ main_pc = "top"
    /\ conversation_active /\ ~shutdown_flag
    /\ consecutive_errors = 2 * MAX_CONSECUTIVE_ERRORS
    /\ turns < MaxTurns

\* ---------------------------------------------------------- claims: server
\* C3: a temporary audio file made by a synthesis call (speak_text,
\* text_to_speech) does not exist any more once that call has returned.
C3_TempFilesRemoved ==
    /\ \A c \in Chans : "mp3" \notin ws_files[c]
    /\ ~sp_last.file_left

\* C4: an exception raised while a message is processed is answered with a
\* message of type "error" and leaves the handler running; a handler ends
\* only when its client disconnects.
C4_ErrorsAnswered ==
    \A c \in Chans :
        /\ ws_pc[c] = "ended" => ws_end[c] = "disconnect"
        /\ ws_exc[c] =>
              /\ ws_pc[c] # "ended"
              /\ \E i \in 1..Len(ws_sent[c]) : ws_sent[c][i].type = "error"

\* The channels that were accepted and whose handler has not ended.
LiveChannels == {c \in Chans : ws_pc[c] \notin {"idle", "ended"}}

\* C5: active_connections holds exactly the accepted channels whose handler
\* has not ended, each once.
C5_ActiveConnections ==
    /\ {active_connections[i] : i \in 1..Len(active_connections)} = LiveChannels
    /\ Len(active_connections) = Cardinality(LiveChannels)

\* The last message of channel c is of type "text".
TextMessage(c) == ws_msg[c].shape = "object" /\ ws_msg[c].type = "text"

\* C12 as stated: every message of type "text" gets exactly one reply, of
\* type "text_response", with a text that is not empty and an audio field
\* that is base64 text of audio that is not empty.
C12_TextAnswered ==
    \A c \in Chans : TextMessage(c) =>
        /\ ws_pc[c] \in {"generate", "synthesize", "receive"}
        /\ ws_pc[c] # "receive" => ws_sent[c] = <<>>
        /\ ws_pc[c] = "receive" =>
              /\ Len(ws_sent[c]) = 1
              /\ ws_sent[c][1].type = "text_response"
              /\ ws_sent[c][1].text # ""
              /\ ws_sent[c][1].audio = "base64"

\* C12 as amended: every message of type "text" gets exactly one reply, of
\* type "text_response", after one generation and one synthesis call; its
\* text is the generated reply (which can be empty) or the fixed fallback
\* reply; its audio field is base64 text of audio that is not empty when the
\* synthesis succeeded, and null when it failed, as it does for an empty text.
C12_TextReply ==
    \A c \in Chans : TextMessage(c) =>
        /\ ws_pc[c] \in {"generate", "synthesize", "receive"}
        /\ ws_pc[c] # "receive" => ws_sent[c] = <<>>
        /\ ws_pc[c] = "receive" =>
              /\ ws_calls[c] = <<"generate", "synthesize">>
              /\ Len(ws_sent[c]) = 1
              /\ ws_sent[c][1].type = "text_response"
              /\ ws_sent[c][1].text \in Replies
              /\ ws_sent[c][1].audio \in {"base64", "null"}
              /\ ws_sent[c][1].audio = "base64" =>
                    ws_sent[c][1].text # "" /\ "mp3" \in ws_files[c]

\* A text message was answered with the fallback reply and no audio.
C12_Witness ==
    \E c \in Chans :
        /\ TextMessage(c)
        /\ ws_pc[c] = "receive"
        /\ ws_sent[c] = <<Sent("text_response", FALLBACK_REPLY, "null")>>

\* C13: a message of type "audio" whose audio field is missing or empty is
\* answered with exactly {"type": "error", "text": "No audio data received"};
\* no transcription, generation or synthesis call is made and no temporary
\* file is created for it, and the handler is back at receiving on the
\* channel, which stays connected.
C13_NoAudioData ==
    \A c \in Chans :
        (ws_msg[c].shape = "object" /\ ws_msg[c].type = "audio"
            /\ ws_msg[c].audio \in {"absent", ""}) =>
            /\ ws_sent[c] = <<[type |-> "error", text |-> "No audio data received",
                               audio |-> "absent"]>>
            /\ ws_calls[c] = <<>>
            /\ ws_files[c] = {}
            /\ tts_call.chan # c
            /\ ws_pc[c] = "receive"
            /\ ws_end[c] = "none"
            /\ \E i \in 1..Len(active_connections) : active_connections[i] = c

\* An audio message with an empty audio field was answered, after an earlier
\* message on the same channel.
C13_Witness ==
    \E c \in Chans :
        /\ ws_msg[c].type = "audio"
        /\ ws_msg[c].audio = ""
        /\ ws_pc[c] = "receive"
        /\ ws_sent[c] # <<>>
        /\ ws_recv[c] = 2
        /\ \A d \in Chans \ {c} : ws_pc[d] = "idle"

\* The handler of channel c is processing a message.
Processing(c) == ws_pc[c] \in {"transcribe", "generate", "synthesize"}

\* The reply fits the request: a text is answered with a text_response, an
\* audio message with an audio_response or an error.
ReplyFits(request, reply) ==
    IF request.type = "text" THEN reply.type = "text_response"
    ELSE reply.type \in {"audio_response", "error"}

\* Channel c has no reply to its last message while it processes it, and
\* exactly one, which fits it, once it is back at receiving.
OneReply(c) ==
    /\ Processing(c) => ws_sent[c] = <<>> /\ ws_msg[c].type \in {"text", "audio"}
    /\ (ws_pc[c] = "receive" /\ ws_msg[c].type \in {"text", "audio"}) =>
          /\ Len(ws_sent[c]) = 1
          /\ ReplyFits(ws_msg[c], ws_sent[c][1])

\* C16: on one channel the messages are processed one after the other: the
\* handler receives a message only when it is not processing one, each text
\* or audio message has got exactly one reply by then, so the replies are
\* sent in the order of the requests, whatever the other handlers do.
C16_SequentialReplies ==
    [][\A c \in Chans :
          /\ OneReply(c)
          /\ OneReply(c)'
          /\ ws_recv'[c] # ws_recv[c] =>
                /\ ws_recv'[c] = ws_recv[c] + 1
                /\ ws_pc[c] = "receive"
                /\ ~Processing(c)
          /\ (Processing(c) /\ ~Processing(c)') =>
                /\ ws_pc'[c] = "receive"
                /\ ws_recv'[c] = ws_recv[c]]_vars

\* The second message of a channel was answered while another channel is
\* connected.
C16_Witness ==
    \E c \in Chans :
        /\ ws_recv[c] = 2
        /\ ws_pc[c] = "receive"
        /\ ws_msg[c].type = "audio"
        /\ Len(ws_sent[c]) = 1
        /\ ws_sent[c][1].type = "audio_response"
        /\ \E d \in Chans \ {c} : ws_pc[d] = "receive"

\* The handler of channel d takes a step.
HandlerStep(d) ==
    \/ ws_disconnect(d)
    \/ ws_receive(d)
    \/ ws_transcribed(d)
    \/ ws_generated(d)
    \/ ws_synthesized(d)

\* The handler of channel d is connected and, as far as its own channel goes,
\* has a step to take: a client's disconnect to see, or a call that returns.
Ready(d) == ws_pc[d] \in {"receive", "transcribe", "generate"}

\* The handler of channel c is inside a generation call, or inside a
\* synthesis call that reaches the synthesis service (for an empty text gTTS
\* raises before it does).
InExternalCall(c) ==
    \/ ws_pc[c] = "generate"
    \/ ws_pc[c] = "synthesize" /\ tts_call.text # ""

\* C17: while the handler of a channel is inside a generation call or
\* inside a synthesis call, the handler of every other connected channel can
\* still take its steps.
C17_CallsSuspend ==
    \A c \in Chans : \A d \in Chans \ {c} :
        (InExternalCall(c) /\ Ready(d)) => ENABLED HandlerStep(d)

\* ------------------------------------------------ claims: sanitize_text
\* C6: sanitize_text is idempotent: sanitizing the result of sanitize_text
\* again, with the same max_length, gives the same string.
C6_SanitizeIdempotent ==
    san.pc = "twice" => san.twice = san.once

=============================================================================
